---- MODULE Spec2Model ----
(***************************************************************************)
(* A model of basics/base_binarizer.py: the BaseBinarizer constructor, the *)
(* speaker map, the pipeline driver (process), the split processor         *)
(* (process_data_split, both dispatch strategies) and the item feature     *)
(* extractor (process_item with get_pitch, get_f0cwt and                   *)
(* get_align_from_textgrid).                                               *)
(*                                                                         *)
(* Files and arrays are modelled by what the code reads from them: a       *)
(* waveform file by its pitch contour (one value per mel frame), its       *)
(* duration and the external call that fails on it; an alignment file by   *)
(* whether it exists and the largest index of its mel2ph array.            *)
(***************************************************************************)
EXTENDS Integers, Sequences, FiniteSets, Bags, TLC

(***************************************************************************)
(* Bounds of the model.                                                    *)
(***************************************************************************)
MaxItems == 3
MaxFrames == 2
MaxSpk == 3
MaxPhones == 2

(***************************************************************************)
(* Values.                                                                 *)
(***************************************************************************)
BASE_ITEM_ATTRIBUTES == {"txt", "ph", "wav_fn", "tg_fn", "spk_id"}

\* every attribute name a loaded item may carry: the schema and one stranger
AttrNames == BASE_ITEM_ATTRIBUTES \cup {"extra"}

\* pitch values: 0 is an unvoiced frame
F0Values == 0..1

\* the keys process_item puts in a record before it merges the attributes
ResKeys == {"item_name", "mel", "wav", "sec", "len"}

Prefixes_train_first == <<"train", "valid", "test">>

\* lines 134-136: the splits process runs, in the order it runs them
Prefixes == <<"valid", "test", "train">>

RECURSIVE Sum(_)
Sum(s) == IF s = <<>> THEN 0 ELSE Head(s) + Sum(Tail(s))

RECURSIVE SeqsUpTo(_, _)
SeqsUpTo(S, n) ==
    IF n = 0 THEN {<<>>}
    ELSE LET shorter == SeqsUpTo(S, n - 1)
         IN  shorter \cup {Append(s, x) : s \in shorter, x \in S}

Range(s) == {s[k] : k \in DOMAIN s}

\* sorted(list(S)) for a set of integers
RECURSIVE sorted(_)
sorted(S) ==
    IF S = {} THEN <<>>
    ELSE LET m == CHOOSE x \in S : \A y \in S : x <= y
         IN  <<m>> \o sorted(S \ {m})

(***************************************************************************)
(* The item feature extractor.  A stage returns the record it was given,   *)
(* grown by its fields, with how it ended: "ok", "skip" (BinarizationError *)
(* was raised) or "raise" (another exception was raised).                  *)
(***************************************************************************)
Ok(res) == [st |-> "ok", res |-> res, why |-> ""]

BinarizationError(res, msg) == [st |-> "skip", res |-> res, why |-> msg]

Exception(res, msg) == [st |-> "raise", res |-> res, why |-> msg]

\* what process_item hands back: a record, None, or a propagating exception
NoneItem(item_name, why) ==
    [ret |-> "None", item_name |-> item_name, keys |-> {}, len |-> 0, sec |-> 0,
     f0 |-> <<>>, spk_embed |-> "unset", why |-> why, copied |-> TRUE]

RaisedItem(item_name, why) ==
    [ret |-> "raise", item_name |-> item_name, keys |-> {}, len |-> 0, sec |-> 0,
     f0 |-> <<>>, spk_embed |-> "unset", why |-> why, copied |-> TRUE]

get_pitch_unchecked(wav, res) ==
    IF wav.fault = "pitch" THEN Exception(res, "get_pitch_algorithm")
    ELSE Ok([res EXCEPT !.keys = @ \cup {"f0", "pitch"}, !.f0 = wav.f0])

get_pitch(wav, res) ==
    IF wav.fault = "pitch" THEN Exception(res, "get_pitch_algorithm")
    ELSE IF Sum(wav.f0) = 0 THEN BinarizationError(res, "Empty **gt** f0")
    ELSE Ok([res EXCEPT !.keys = @ \cup {"f0", "pitch"}, !.f0 = wav.f0])

\* the wavelet transform of res['f0']; wav.cwt says whether it holds a NaN
get_f0cwt(wav, res) ==
    IF wav.fault = "cwt" THEN Exception(res, "get_lf0_cwt")
    ELSE IF wav.cwt = "nan" THEN BinarizationError(res, "NaN CWT")
    ELSE Ok([res EXCEPT !.keys = @ \cup {"cwt_spec", "cwt_scales", "f0_mean", "f0_std"}])

\* encoder.encode(meta_data['ph']): fails on a missing, empty or unknown sequence
encode_fails(encoder, meta_data) ==
    \/ "ph" \notin meta_data.keys
    \/ meta_data.ph = <<>>
    \/ \E k \in DOMAIN meta_data.ph : meta_data.ph[k] \notin encoder.vocab

\* the ids of the symbols: where each stands in the encoder's vocabulary
encode(encoder, meta_data) ==
    [k \in DOMAIN meta_data.ph |->
        CHOOSE n \in DOMAIN encoder.vocab_list : encoder.vocab_list[n] = meta_data.ph[k]]

get_align_strict(meta_data, phone_encoded, res) ==
    IF "tg_fn" \notin meta_data.keys THEN Exception(res, "KeyError: tg_fn")
    ELSE IF meta_data.tg_fn.kind \in {"exists", "corrupt"}
    THEN IF meta_data.tg_fn.kind = "corrupt" THEN Exception(res, "get_mel2ph")
         ELSE IF meta_data.tg_fn.max >= Len(phone_encoded)
         THEN BinarizationError(res, "Align does not match")
         ELSE Ok([res EXCEPT !.keys = @ \cup {"mel2ph", "dur"}])
    ELSE BinarizationError(res, "Align not found")

get_align_from_textgrid(meta_data, phone_encoded, res) ==
    IF "tg_fn" \notin meta_data.keys THEN Exception(res, "KeyError: tg_fn")
    ELSE IF meta_data.tg_fn.kind \in {"exists", "corrupt"}
    THEN IF meta_data.tg_fn.kind = "corrupt" THEN Exception(res, "get_mel2ph")
         ELSE IF meta_data.tg_fn.max - 1 >= Len(phone_encoded)
         THEN BinarizationError(res, "Align does not match")
         ELSE Ok([res EXCEPT !.keys = @ \cup {"mel2ph", "dur"}])
    ELSE BinarizationError(res, "Align not found")

\* the alignment hook a corpus supplies
get_align(meta_data, phone_encoded, res) ==
    get_align_from_textgrid(meta_data, phone_encoded, res)

stages_ungated(meta_data, encoder, binarization_args, res) ==
    LET wav == meta_data.wav_fn
        s1 == IF binarization_args.with_f0 THEN get_pitch(wav, res) ELSE Ok(res)
        s2 == IF s1.st = "ok" /\ binarization_args.with_f0cwt
              THEN get_f0cwt(wav, s1.res) ELSE s1
        s3 == IF s2.st = "ok" /\ binarization_args.with_txt
              THEN IF encode_fails(encoder, meta_data)
                   THEN BinarizationError(s2.res, "Empty phoneme")
                   ELSE Ok([s2.res EXCEPT !.keys = @ \cup {"phone"}])
              ELSE s2
    IN  IF s3.st = "ok" /\ binarization_args.with_txt /\ binarization_args.with_align
        THEN get_align(meta_data, encode(encoder, meta_data), s3.res)
        ELSE s3

\* lines 204-216: the stages inside the try block
stages(meta_data, encoder, binarization_args, res) ==
    LET wav == meta_data.wav_fn
        s1 == IF binarization_args.with_f0 THEN get_pitch(wav, res) ELSE Ok(res)
        s2 == IF s1.st = "ok" /\ binarization_args.with_f0 /\ binarization_args.with_f0cwt
              THEN get_f0cwt(wav, s1.res) ELSE s1
        s3 == IF s2.st = "ok" /\ binarization_args.with_txt
              THEN IF encode_fails(encoder, meta_data)
                   THEN BinarizationError(s2.res, "Empty phoneme")
                   ELSE Ok([s2.res EXCEPT !.keys = @ \cup {"phone"}])
              ELSE s2
    IN  IF s3.st = "ok" /\ binarization_args.with_txt /\ binarization_args.with_align
        THEN get_align(meta_data, encode(encoder, meta_data), s3.res)
        ELSE s3

process_item_no_catch(item_name, meta_data, encoder, binarization_args) ==
    IF "wav_fn" \notin meta_data.keys THEN RaisedItem(item_name, "KeyError: wav_fn")
    ELSE IF meta_data.wav_fn.fault = "load" THEN RaisedItem(item_name, "wav2spec")
    ELSE LET res == [ret |-> "item", item_name |-> item_name,
                     keys |-> ResKeys \cup meta_data.keys,
                     len |-> Len(meta_data.wav_fn.f0), sec |-> meta_data.wav_fn.sec,
                     f0 |-> <<>>, spk_embed |-> "unset", why |-> "", copied |-> TRUE]
             s == stages(meta_data, encoder, binarization_args, res)
         IN  IF s.st = "ok" THEN s.res ELSE RaisedItem(item_name, s.why)

process_item_catch_all(item_name, meta_data, encoder, binarization_args) ==
    IF "wav_fn" \notin meta_data.keys THEN RaisedItem(item_name, "KeyError: wav_fn")
    ELSE IF meta_data.wav_fn.fault = "load" THEN RaisedItem(item_name, "wav2spec")
    ELSE LET res == [ret |-> "item", item_name |-> item_name,
                     keys |-> ResKeys \cup meta_data.keys,
                     len |-> Len(meta_data.wav_fn.f0), sec |-> meta_data.wav_fn.sec,
                     f0 |-> <<>>, spk_embed |-> "unset", why |-> "", copied |-> TRUE]
             s == stages(meta_data, encoder, binarization_args, res)
         IN  IF s.st = "ok" THEN s.res ELSE NoneItem(item_name, s.why)

merge_in_place(item_name, meta_data) ==
    [ret |-> "item", item_name |-> item_name, keys |-> ResKeys \cup meta_data.keys,
     len |-> Len(meta_data.wav_fn.f0), sec |-> meta_data.wav_fn.sec,
     f0 |-> <<>>, spk_embed |-> "unset", why |-> "", copied |-> FALSE]

\* lines 199-203: res, a new dict of the five fields and the item's attributes
merge(item_name, meta_data) ==
    [ret |-> "item", item_name |-> item_name, keys |-> ResKeys \cup meta_data.keys,
     len |-> Len(meta_data.wav_fn.f0), sec |-> meta_data.wav_fn.sec,
     f0 |-> <<>>, spk_embed |-> "unset", why |-> "", copied |-> TRUE]

process_item(item_name, meta_data, encoder, binarization_args) ==
    IF "wav_fn" \notin meta_data.keys THEN RaisedItem(item_name, "KeyError: wav_fn")
    ELSE IF meta_data.wav_fn.fault = "load" THEN RaisedItem(item_name, "wav2spec")
    ELSE LET res == merge(item_name, meta_data)
             s == stages(meta_data, encoder, binarization_args, res)
         IN  CASE s.st = "ok" -> s.res
               [] s.st = "skip" -> NoneItem(item_name, s.why)
               [] s.st = "raise" -> RaisedItem(item_name, s.why)

(***************************************************************************)
(* The state.                                                              *)
(***************************************************************************)
VARIABLES
    datasets,         \* what load_meta_data finds in each processed_data_dir
    hparams,          \* the configuration
    cuts,             \* how the corpus' split views cut item_names
    pc,               \* where the program is
    err,              \* the exception that ended the run, "" while none has
    ds_id,            \* __init__: datasets loaded so far
    items,            \* self.items, in insertion order
    item_names,       \* self.item_names
    spk_map,          \* self.spk_map, a set of <<tag, id>> pairs
    phone_encoder,    \* self.phone_encoder
    binary_data_dir,  \* the files under hparams['binary_data_dir']
    caller,           \* who called process_data_split: "process" or "direct"
    split_no,         \* process: splits it has started
    prefix,           \* process_data_split: its locals
    multiprocess,
    args,
    meta_data,
    builder,
    lengths,
    f0s,
    total_sec,
    i,
    f_id,
    results,          \* the worker pool: one slot per dispatched job
    calls,            \* history: what each completed process_data_split produced
    provisions,       \* history: what each call of _phone_encoder found and did
    a,                \* process_item called on its own: the arguments
    item              \* and what it returned

input_vars == <<datasets, hparams, cuts>>

self_vars == <<ds_id, items, item_names, spk_map, phone_encoder>>

split_vars ==
    <<caller, split_no, prefix, multiprocess, args, meta_data, builder, lengths, f0s,
      total_sec, i, f_id, results>>

item_vars == <<a, item>>

vars ==
    <<datasets, hparams, cuts, pc, err, ds_id, items, item_names, spk_map, phone_encoder,
      binary_data_dir, caller, split_no, prefix, multiprocess, args, meta_data, builder,
      lengths, f0s, total_sec, i, f_id, results, calls, provisions, a, item>>

PrefixSet == Range(Prefixes)

binarization_args == hparams.binarization_args

(***************************************************************************)
(* Inputs.                                                                 *)
(***************************************************************************)
Wave(fault, f0, cwt, sec) == [fault |-> fault, f0 |-> f0, cwt |-> cwt, sec |-> sec]

TextGrid(kind, max) == [kind |-> kind, max |-> max]

Meta(keys, ph, wav_fn, tg_fn, spk_id) ==
    [keys |-> keys, ph |-> ph, wav_fn |-> wav_fn, tg_fn |-> tg_fn, spk_id |-> spk_id]

Flags(spk_embed, wav, f0, f0cwt, txt, align) ==
    [shuffle |-> FALSE, with_spk_embed |-> spk_embed, with_wav |-> wav, with_f0 |-> f0,
     with_f0cwt |-> f0cwt, with_txt |-> txt, with_align |-> align]

HParams(num_spk, flags) ==
    [num_spk |-> num_spk, reset_phone_dict |-> FALSE, binarization_args |-> flags]

\* a pitch contour of MaxFrames frames: silent, or voiced in its last frame only
Silent == [k \in 1..MaxFrames |-> 0]

LateVoiced == [k \in 1..MaxFrames |-> IF k = MaxFrames THEN 1 ELSE 0]

\* the kinds of item the pipeline is run on
GoodItem == Meta(BASE_ITEM_ATTRIBUTES, <<1>>, Wave("none", <<1>>, "ok", 1), TextGrid("exists", 1), 1)

BareItem == Meta({"wav_fn", "spk_id"}, <<>>, Wave("none", LateVoiced, "ok", 2), TextGrid("None", 0), 2)

SilentItem == Meta(BASE_ITEM_ATTRIBUTES, <<1, 2>>, Wave("none", Silent, "ok", 1), TextGrid("None", 0), 1)

BrokenItem == Meta(BASE_ITEM_ATTRIBUTES, <<1>>, Wave("load", <<1>>, "ok", 1), TextGrid("exists", 1), 2)

\* the wavelet transform fails on its contour and get_mel2ph on its alignment file
CorruptItem == Meta(BASE_ITEM_ATTRIBUTES, <<1>>, Wave("cwt", <<1>>, "ok", 2), TextGrid("corrupt", 0), 1)

\* the pitch algorithm fails on its waveform
UnpitchedItem == Meta(BASE_ITEM_ATTRIBUTES, <<2>>, Wave("pitch", <<1>>, "ok", 1), TextGrid("exists", 1), 2)

ItemKinds == {GoodItem, BareItem, SilentItem, BrokenItem, CorruptItem, UnpitchedItem}

Configs ==
    {Flags(FALSE, FALSE, FALSE, FALSE, FALSE, FALSE),
     Flags(TRUE, TRUE, TRUE, FALSE, FALSE, FALSE),
     Flags(TRUE, FALSE, TRUE, TRUE, TRUE, TRUE),
     Flags(FALSE, TRUE, FALSE, FALSE, TRUE, TRUE)}

Cuts(n) == {c \in (0..n) \X (0..n) : c[1] + c[2] <= n}

\* a dataset whose entries are named 1..n
Dataset(metas) == [k \in DOMAIN metas |-> [name |-> k, meta |-> metas[k]]]

(***************************************************************************)
(* Construction: __init__.                                                 *)
(***************************************************************************)
NoFile == [exists |-> FALSE, content |-> <<>>]

NoEncoder == [built |-> FALSE, vocab |-> {}, vocab_list |-> <<>>]

NoSpkMapFile == [exists |-> FALSE, content |-> {}]

NoBuilder == [created |-> FALSE, items |-> <<>>, finalized |-> FALSE]

NoMeta == [bound |-> FALSE, keys |-> {}]

NoArgs == [item_name |-> 0, meta_data |-> GoodItem]

PendingItem == [ret |-> "pending", item_name |-> 0, keys |-> {}, len |-> 0, sec |-> 0,
                f0 |-> <<>>, spk_embed |-> "unset", why |-> "", copied |-> TRUE]

\* hparams['binary_data_dir'] before anything is written to it
EmptyDir ==
    [spk_map |-> NoSpkMapFile, phone_set |-> NoFile,
     data |-> [p \in PrefixSet |-> NoFile],
     lengths |-> [p \in PrefixSet |-> NoFile],
     f0s_mean_std |-> [p \in PrefixSet |-> NoFile]]

\* the locals before anything has run
BlankLocals ==
    /\ err = ""
    /\ ds_id = 0
    /\ items = <<>>
    /\ item_names = <<>>
    /\ spk_map = {}
    /\ caller = ""
    /\ split_no = 0
    /\ prefix = ""
    /\ multiprocess = FALSE
    /\ args = <<>>
    /\ meta_data = NoMeta
    /\ builder = NoBuilder
    /\ lengths = <<>>
    /\ f0s = <<>>
    /\ total_sec = 0
    /\ i = 0
    /\ f_id = 0
    /\ results = <<>>
    /\ calls = <<>>
    /\ provisions = <<>>
    /\ item = PendingItem

\* the locals and the outputs before anything has run
Blank == BlankLocals /\ binary_data_dir = EmptyDir

Start(in) ==
    /\ datasets = in.datasets
    /\ hparams = in.hparams
    /\ cuts = in.cuts
    /\ pc = "__init__"
    /\ phone_encoder = NoEncoder
    /\ a = NoArgs
    /\ Blank

Init ==
    \E n \in 0..MaxItems :
        \E metas \in [1..n -> ItemKinds], flags \in Configs, c \in Cuts(n) :
            Start([datasets |-> <<Dataset(metas)>>, hparams |-> HParams(2, flags), cuts |-> c])

\* self.items[name] = meta: a new key goes last, a known key keeps its place
dict_set(d, name, meta) ==
    IF \E k \in DOMAIN d : d[k].name = name
    THEN [k \in DOMAIN d |-> IF d[k].name = name THEN [name |-> name, meta |-> meta] ELSE d[k]]
    ELSE Append(d, [name |-> name, meta |-> meta])

RECURSIVE load_meta_data(_, _)
load_meta_data(d, dataset) ==
    IF dataset = <<>> THEN d
    ELSE load_meta_data(dict_set(d, Head(dataset).name, Head(dataset).meta), Tail(dataset))

\* self.items[item_name]
Lookup(d, name) == (CHOOSE k \in Range(d) : k.name = name).meta

\* line 62: all([attr in self.item_attributes for attr in list(self.items.values())[0].keys()])
attributes_checked(d) == \A attr \in d[1].meta.keys : attr \in BASE_ITEM_ATTRIBUTES

Raise(e) ==
    /\ pc' = "aborted"
    /\ err' = e

\* lines 58-62: one round of the loop over processed_data_dirs
LoadDataset ==
    /\ pc = "__init__"
    /\ ds_id < Len(datasets)
    /\ LET loaded == load_meta_data(items, datasets[ds_id + 1])
       IN  /\ items' = loaded
           /\ ds_id' = ds_id + 1
           /\ IF ds_id # 0 THEN UNCHANGED <<pc, err>>
              ELSE IF loaded = <<>> THEN Raise("IndexError")
              ELSE IF ~attributes_checked(loaded) THEN Raise("AssertionError")
              ELSE UNCHANGED <<pc, err>>
    /\ UNCHANGED <<input_vars, item_names, spk_map, phone_encoder, binary_data_dir,
                   split_vars, calls, provisions, item_vars>>

Shuffles(s) ==
    {[k \in DOMAIN s |-> s[p[k]]] : p \in {q \in [DOMAIN s -> DOMAIN s] : Range(q) = DOMAIN s}}

\* lines 63-70: the sorted names, shuffled (seed 1234) when asked
FinishInit ==
    /\ pc = "__init__"
    /\ ds_id = Len(datasets)
    /\ LET names == sorted({items[k].name : k \in DOMAIN items})
       IN  IF binarization_args.shuffle
           THEN item_names' \in Shuffles(names)
           ELSE item_names' = names
    /\ pc' = "idle"
    /\ UNCHANGED <<input_vars, err, ds_id, items, spk_map, phone_encoder, binary_data_dir,
                   split_vars, calls, provisions, item_vars>>

(***************************************************************************)
(* The speaker map and the pipeline driver: process.                       *)
(***************************************************************************)
enumerate_from_one(s) == {<<s[k], k>> : k \in DOMAIN s}

\* line 92: enumerate(...), as pairs
enumerate(s) == {<<s[k], k - 1>> : k \in DOMAIN s}

build_spk_map_unchecked ==
    IF \E k \in DOMAIN item_names : "spk_id" \notin Lookup(items, item_names[k]).keys
    THEN [st |-> "raise", why |-> "KeyError: spk_id", map |-> {}]
    ELSE [st |-> "ok", why |-> "",
          map |-> enumerate(sorted({Lookup(items, item_names[k]).spk_id : k \in DOMAIN item_names}))]

\* lines 87-94
build_spk_map ==
    IF \E k \in DOMAIN item_names : "spk_id" \notin Lookup(items, item_names[k]).keys
    THEN [st |-> "raise", why |-> "KeyError: spk_id", map |-> {}]
    ELSE LET spk_set == {Lookup(items, item_names[k]).spk_id : k \in DOMAIN item_names}
             map == enumerate(sorted(spk_set))
         IN  IF Cardinality(map) = 0 \/ Cardinality(map) <= hparams.num_spk
             THEN [st |-> "ok", why |-> "", map |-> map]
             ELSE [st |-> "raise", why |-> "AssertionError", map |-> {}]

\* lines 126-128
process_build_spk_map ==
    /\ pc = "idle"
    /\ IF build_spk_map.st = "ok"
       THEN /\ spk_map' = build_spk_map.map
            /\ pc' = "dump_spk_map"
            /\ err' = err
       ELSE /\ Raise(build_spk_map.why)
            /\ spk_map' = spk_map
    /\ UNCHANGED <<input_vars, ds_id, items, item_names, phone_encoder, binary_data_dir,
                   split_vars, calls, provisions, item_vars>>

\* lines 129-131
process_dump_spk_map ==
    /\ pc = "dump_spk_map"
    /\ binary_data_dir' = [binary_data_dir EXCEPT !.spk_map = [exists |-> TRUE, content |-> spk_map]]
    /\ pc' = "_phone_encoder"
    /\ UNCHANGED <<input_vars, err, self_vars, split_vars, calls, provisions, item_vars>>

\* what the corpus' load_ph_set appends to ph_set
load_ph_set == <<2, 1, 2>>

\* line 105, json.dump of a list of strings: the text, token by token
json_dump(list) ==
    IF list = <<>> THEN <<[t |-> "[", v |-> 0], [t |-> "]", v |-> 0]>>
    ELSE [k \in 1..(2 * Len(list) + 1) |->
             IF k = 1 THEN [t |-> "[", v |-> 0]
             ELSE IF k = 2 * Len(list) + 1 THEN [t |-> "]", v |-> 0]
             ELSE IF k % 2 = 0 THEN [t |-> "str", v |-> list[k \div 2]]
             ELSE [t |-> ",", v |-> 0]]

\* line 108, json.load: the strings between the brackets, in the order of the text
json_load(text) ==
    LET strs == SelectSeq(text, LAMBDA tok : tok.t = "str")
    IN  [k \in DOMAIN strs |-> strs[k].v]

ph_set_rewritten ==
    [called |-> TRUE, wrote |-> TRUE,
     file |-> [exists |-> TRUE, content |-> json_dump(sorted(Range(load_ph_set)))]]

\* lines 100-109: the vocabulary file after the branch, whether load_ph_set was
\* called and whether the file was written
ph_set_written ==
    IF hparams.reset_phone_dict \/ ~binary_data_dir.phone_set.exists
    THEN [called |-> TRUE, wrote |-> TRUE,
          file |-> [exists |-> TRUE, content |-> json_dump(sorted(Range(load_ph_set)))]]
    ELSE [called |-> FALSE, wrote |-> FALSE, file |-> binary_data_dir.phone_set]

\* the encoder over the vocabulary it reads from phone_set.json
build_phone_encoder(ph_set_file) ==
    [built |-> TRUE, vocab |-> Range(json_load(ph_set_file.content)),
     vocab_list |-> json_load(ph_set_file.content)]

\* line 133, lines 99-110
process_phone_encoder ==
    /\ pc = "_phone_encoder"
    /\ binary_data_dir' = [binary_data_dir EXCEPT !.phone_set = ph_set_written.file]
    /\ phone_encoder' = build_phone_encoder(ph_set_written.file)
    /\ provisions' = Append(provisions,
           [reset |-> hparams.reset_phone_dict, found |-> binary_data_dir.phone_set,
            called |-> ph_set_written.called, wrote |-> ph_set_written.wrote,
            file |-> ph_set_written.file,
            encoder |-> build_phone_encoder(ph_set_written.file)])
    /\ pc' = "split"
    /\ UNCHANGED <<input_vars, err, ds_id, items, item_names, spk_map, split_vars, calls,
                   item_vars>>

(***************************************************************************)
(* The split views and the split processor: process_data_split.            *)
(***************************************************************************)
Min(x, y) == IF x <= y THEN x ELSE y

\* s[lo:hi]
slice(s, lo, hi) == SubSeq(s, Min(lo, Len(s)) + 1, Min(hi, Len(s)))

valid_item_names == slice(item_names, 0, cuts[1])

test_item_names == slice(item_names, cuts[1], cuts[1] + cuts[2])

train_item_names == slice(item_names, cuts[1] + cuts[2], Len(item_names))

\* lines 115-124
meta_data_iterator(p) ==
    LET names == IF p = "valid" THEN valid_item_names
                 ELSE IF p = "test" THEN test_item_names
                 ELSE train_item_names
    IN  [k \in DOMAIN names |-> [item_name |-> names[k], meta_data |-> Lookup(items, names[k])]]

\* lines 139-155: the locals, the argument list and the entry into the loop
Enter(p, mp) ==
    LET todo == meta_data_iterator(p)
    IN  /\ prefix' = p
        /\ multiprocess' = mp
        /\ builder' = [created |-> TRUE, items |-> <<>>, finalized |-> FALSE]
        /\ lengths' = <<>>
        /\ f0s' = <<>>
        /\ total_sec' = 0
        /\ args' = todo
        /\ meta_data' = IF todo = <<>> THEN NoMeta
                        ELSE [bound |-> TRUE, keys |-> todo[Len(todo)].meta_data.keys]
        /\ i' = Len(todo)
        /\ f_id' = 0
        /\ results' = IF mp THEN [k \in DOMAIN todo |-> PendingItem] ELSE <<>>
        /\ IF mp /\ todo = <<>> THEN Raise("NameError: meta_data")
           ELSE /\ pc' = "loop"
                /\ err' = err

\* lines 134-136
process_call_split ==
    /\ pc = "split"
    /\ split_no < Len(Prefixes)
    /\ split_no' = split_no + 1
    /\ caller' = "process"
    /\ Enter(Prefixes[split_no + 1], FALSE)
    /\ UNCHANGED <<input_vars, self_vars, binary_data_dir, calls, provisions, item_vars>>

\* process_data_split called on its own once process has returned
direct_call ==
    /\ pc = "done"
    /\ \E p \in PrefixSet, mp \in BOOLEAN : Enter(p, mp)
    /\ caller' = "direct"
    /\ UNCHANGED <<input_vars, self_vars, binary_data_dir, split_no, calls, provisions, item_vars>>

\* lines 158-159 and 175-176: the embedding is computed from item['wav']
embed_utterance(it) ==
    [it EXCEPT !.keys = @ \cup {"spk_embed"},
               !.spk_embed = IF binarization_args.with_spk_embed
                             THEN IF "wav" \in it.keys THEN "vec" ELSE "KeyError"
                             ELSE "None"]

\* lines 160-162 and 177-179
del_wav(it) ==
    IF ~binarization_args.with_wav /\ "wav" \in it.keys
    THEN [it EXCEPT !.keys = @ \ {"wav"}]
    ELSE it

lengths_append_sec(ls, it) == Append(ls, it.sec)

\* lines 164 and 181
lengths_append(ls, it) == Append(ls, it.len)

f0s_append_always(fs, it) == Append(fs, it.f0)

\* lines 166-167 and 183-184
f0s_append(fs, it) == IF "f0" \in it.keys THEN Append(fs, it.f0) ELSE fs

aggregate_drop_first(it) == embed_utterance(del_wav(it))

\* lines 158-162 and 175-179: the embedding, then the drop of the waveform
aggregate(it) == del_wav(embed_utterance(it))

\* self.items once the loop body has written to the record: the registry's own
\* dict is written to only when the record is that dict and not a copy of it
registry_after(d, it, kept) ==
    IF it.copied THEN d
    ELSE dict_set(d, it.item_name, [Lookup(d, it.item_name) EXCEPT !.keys = kept.keys])

\* what the loop body does with one extraction result
Handle(it) ==
    CASE it.ret = "raise" ->
            /\ Raise(it.why)
            /\ UNCHANGED <<items, builder, lengths, total_sec, f0s>>
      [] it.ret = "None" ->
            UNCHANGED <<pc, err, items, builder, lengths, total_sec, f0s>>
      [] it.ret = "item" ->
            LET kept == aggregate(it)
            IN  IF kept.spk_embed = "KeyError"
                THEN /\ Raise("KeyError: wav")
                     /\ UNCHANGED <<items, builder, lengths, total_sec, f0s>>
                ELSE /\ items' = registry_after(items, it, kept)
                     /\ builder' = [builder EXCEPT !.items = Append(@, kept)]
                     /\ lengths' = lengths_append(lengths, kept)
                     /\ total_sec' = total_sec + kept.sec
                     /\ f0s' = f0s_append(f0s, kept)
                     /\ UNCHANGED <<pc, err>>

single_next_forward == Len(args) - i + 1

\* line 170: reversed(range(len(args)))
single_next == i

\* lines 170-184: one round of the single cpu loop
single_cpu_step ==
    /\ pc = "loop"
    /\ ~multiprocess
    /\ i > 0
    /\ i' = i - 1
    /\ Handle(process_item(args[single_next].item_name, args[single_next].meta_data,
                           phone_encoder, binarization_args))
    /\ UNCHANGED <<input_vars, ds_id, item_names, spk_map, phone_encoder, binary_data_dir,
                   caller, split_no, prefix,
                   multiprocess, args, meta_data, f_id, results, calls, provisions, item_vars>>

\* chunked_multiprocess_run: a worker finishes one dispatched job
worker_step ==
    /\ pc = "loop"
    /\ multiprocess
    /\ \E j \in DOMAIN results :
          /\ results[j].ret = "pending"
          /\ results' = [results EXCEPT ![j] =
                 process_item(args[j].item_name, args[j].meta_data, phone_encoder,
                              binarization_args)]
    /\ UNCHANGED <<input_vars, pc, err, self_vars, binary_data_dir, caller, split_no, prefix,
                   multiprocess, args, meta_data, builder, lengths, f0s, total_sec, i, f_id,
                   calls, provisions, item_vars>>

\* line 155: zip(tqdm(meta_data), ...) ends with the shorter of the two
zip_length == Min(Cardinality(meta_data.keys), Len(args))

multiprocess_step_no_wait ==
    /\ pc = "loop"
    /\ multiprocess
    /\ f_id < zip_length
    /\ f_id' = f_id + 1
    /\ Handle(process_item(args[f_id + 1].item_name, args[f_id + 1].meta_data, phone_encoder,
                           binarization_args))
    /\ UNCHANGED <<input_vars, ds_id, item_names, spk_map, phone_encoder, binary_data_dir,
                   caller, split_no, prefix,
                   multiprocess, args, meta_data, i, results, calls, provisions, item_vars>>

\* lines 154-167: one round of the loop over the pool's results, in dispatch order
multiprocess_step ==
    /\ pc = "loop"
    /\ multiprocess
    /\ f_id < zip_length
    /\ results[f_id + 1].ret # "pending"
    /\ f_id' = f_id + 1
    /\ Handle(results[f_id + 1])
    /\ UNCHANGED <<input_vars, ds_id, item_names, spk_map, phone_encoder, binary_data_dir,
                   caller, split_no, prefix,
                   multiprocess, args, meta_data, i, results, calls, provisions, item_vars>>

loop_over == IF multiprocess THEN f_id = zip_length ELSE i = 0

\* line 186
finalize ==
    /\ pc = "loop"
    /\ loop_over
    /\ builder' = [builder EXCEPT !.finalized = TRUE]
    /\ binary_data_dir' =
           [binary_data_dir EXCEPT !.data[prefix] = [exists |-> TRUE, content |-> builder.items]]
    /\ pc' = "save"
    /\ UNCHANGED <<input_vars, err, self_vars, caller, split_no, prefix, multiprocess, args,
                   meta_data, lengths, f0s, total_sec, i, f_id, results, calls, provisions, item_vars>>

RECURSIVE concatenate(_)
concatenate(fs) == IF fs = <<>> THEN <<>> ELSE Head(fs) \o concatenate(Tail(fs))

\* f0s[f0s != 0]
nonzero(s) == SelectSeq(s, LAMBDA x : x # 0)

\* lines 187-192: the lengths, the pitch statistics, the summary line
save ==
    /\ pc = "save"
    /\ binary_data_dir' =
           [binary_data_dir EXCEPT
               !.lengths[prefix] = [exists |-> TRUE, content |-> lengths],
               !.f0s_mean_std[prefix] =
                   IF Len(f0s) > 0
                   THEN [exists |-> TRUE, content |-> nonzero(concatenate(f0s))]
                   ELSE @]
    /\ calls' = Append(calls, [prefix |-> prefix, multiprocess |-> multiprocess,
                              caller |-> caller, items |-> builder.items,
                              lengths |-> lengths, total_sec |-> total_sec])
    /\ pc' = IF caller = "direct" THEN "returned"
             ELSE IF split_no = Len(Prefixes) THEN "done" ELSE "split"
    /\ UNCHANGED <<input_vars, err, self_vars, split_vars, item_vars, provisions>>

Next ==
    \/ LoadDataset
    \/ FinishInit
    \/ process_build_spk_map
    \/ process_dump_spk_map
    \/ process_phone_encoder
    \/ process_call_split
    \/ direct_call
    \/ single_cpu_step
    \/ worker_step
    \/ multiprocess_step
    \/ finalize
    \/ save

Spec == Init /\ [][Next]_vars

(***************************************************************************)
(* The speaker map on corpora of many speakers.                            *)
(***************************************************************************)
SpokenBy(tag) == [GoodItem EXCEPT !.spk_id = tag]

SpkInit ==
    \E n \in 0..MaxItems :
        \E tags \in [1..n -> 1..MaxSpk], num_spk \in 0..MaxSpk :
            Start([datasets |-> <<Dataset([k \in 1..n |-> SpokenBy(tags[k])])>>,
                   hparams |-> HParams(num_spk, Flags(FALSE, FALSE, FALSE, FALSE, FALSE, FALSE)),
                   cuts |-> <<1, 1>>])

SpecSpk == SpkInit /\ [][Next]_vars

(***************************************************************************)
(* Construction over datasets whose items carry other attribute sets.      *)
(***************************************************************************)
KeySets ==
    {BASE_ITEM_ATTRIBUTES, BASE_ITEM_ATTRIBUTES \ {"tg_fn"},
     BASE_ITEM_ATTRIBUTES \cup {"extra"}, {"wav_fn", "spk_id"}}

WithKeys(keys) == [GoodItem EXCEPT !.keys = keys]

\* the datasets of at most n entries, no name twice
Entries(n) ==
    {d \in SeqsUpTo([name : 1..MaxItems, meta : {WithKeys(ks) : ks \in KeySets}], n) :
        \A j, k \in DOMAIN d : j # k => d[j].name # d[k].name}

CtorInit ==
    \E d \in Entries(2), e \in Entries(1), more \in BOOLEAN, shuffle \in BOOLEAN :
        /\ more \/ e = <<>>
        /\ Start([datasets |-> IF more THEN <<d, e>> ELSE <<d>>,
                  hparams |-> HParams(2, [Flags(FALSE, FALSE, FALSE, FALSE, FALSE, FALSE)
                                             EXCEPT !.shuffle = shuffle]),
                  cuts |-> <<1, 1>>])

SpecInit == CtorInit /\ [][Next]_vars

(***************************************************************************)
(* process_item on its own, over every item and every choice of stages.    *)
(***************************************************************************)
Contours == SeqsUpTo(F0Values, MaxFrames) \ {<<>>}

Waves ==
    {Wave(fault, f0, cwt, 1) :
        fault \in {"none", "load", "pitch", "cwt"}, f0 \in Contours, cwt \in {"ok", "nan"}}

TextGrids ==
    {TextGrid(kind, 0) : kind \in {"None", "missing", "corrupt"}}
        \cup {TextGrid("exists", max) : max \in 0..(MaxPhones + 1)}

PhoneSeqs == (SeqsUpTo({1, 2}, MaxPhones) \cap {<<>>, <<1>>, <<1, 2>>}) \cup {<<3>>}

ItemMetas ==
    {Meta(keys, ph, wav, tg, 1) :
        keys \in KeySets, ph \in PhoneSeqs, wav \in Waves, tg \in TextGrids}

StageFlags ==
    {Flags(FALSE, FALSE, f0, f0cwt, txt, align) :
        f0 \in BOOLEAN, f0cwt \in BOOLEAN, txt \in BOOLEAN, align \in BOOLEAN}

ItemInit ==
    \E m \in ItemMetas, flags \in StageFlags :
        /\ datasets = <<>>
        /\ hparams = HParams(1, flags)
        /\ cuts = <<0, 0>>
        /\ pc = "process_item"
        /\ phone_encoder = build_phone_encoder([exists |-> TRUE, content |-> json_dump(<<1, 2>>)])
        /\ a = [item_name |-> 1, meta_data |-> m]
        /\ Blank

\* lines 194-220
call_process_item ==
    /\ pc = "process_item"
    /\ item' = process_item(a.item_name, a.meta_data, phone_encoder, binarization_args)
    /\ pc' = "item_returned"
    /\ UNCHANGED <<input_vars, err, self_vars, binary_data_dir, split_vars, calls, provisions, a>>

ItemNext == call_process_item

SpecItem == ItemInit /\ [][ItemNext]_vars

(***************************************************************************)
(* _phone_encoder on its own, run after run over one binary_data_dir.      *)
(***************************************************************************)
MaxRuns == 2

\* vocabularies an earlier run may have left in phone_set.json
StaleVocabs == SeqsUpTo(1..3, 2)

PhoneInit ==
    \E reset \in BOOLEAN, ph \in PhoneSeqs,
       found \in {NoFile} \cup {[exists |-> TRUE, content |-> json_dump(v)] : v \in StaleVocabs} :
        /\ datasets = <<>>
        /\ hparams = [HParams(1, Flags(FALSE, FALSE, FALSE, FALSE, TRUE, FALSE))
                         EXCEPT !.reset_phone_dict = reset]
        /\ cuts = <<0, 0>>
        /\ pc = "_phone_encoder"
        /\ phone_encoder = NoEncoder
        /\ a = [item_name |-> 1, meta_data |-> [GoodItem EXCEPT !.ph = ph]]
        /\ binary_data_dir = [EmptyDir EXCEPT !.phone_set = found]
        /\ BlankLocals

\* the program is run again on the same binary_data_dir, reset_phone_dict as configured then
run_again ==
    /\ pc = "split"
    /\ split_no = 0
    /\ Len(provisions) < MaxRuns
    /\ \E reset \in BOOLEAN : hparams' = [hparams EXCEPT !.reset_phone_dict = reset]
    /\ phone_encoder' = NoEncoder
    /\ pc' = "_phone_encoder"
    /\ UNCHANGED <<datasets, cuts, err, ds_id, items, item_names, spk_map, binary_data_dir,
                   split_vars, calls, provisions, item_vars>>

PhoneNext == process_phone_encoder \/ run_again

SpecPhone == PhoneInit /\ [][PhoneNext]_vars

(***************************************************************************)
(* The claims.                                                             *)
(***************************************************************************)
\* s and t have the same length and s[k] is the 'len' field of t[k]
LensOf(s, t) == Len(s) = Len(t) /\ \A k \in DOMAIN s : s[k] = t[k].len

\* a call of process_data_split has returned and nothing has run since
JustReturned == prefix # "" /\ pc \in {"split", "done", "returned"}

\* C1: in every state of process_data_split, under either strategy, the lengths
\* list has one entry per record appended to the container and its k-th entry is
\* the k-th record's 'len'; the lengths file holds that list as it was when the
\* container was finalized, so the two files of a split are aligned whenever the
\* split is not between finalize and the save of its lengths.
C1_LengthsAligned ==
    /\ LensOf(lengths, builder.items)
    /\ JustReturned =>
          /\ binary_data_dir.lengths[prefix] = [exists |-> TRUE, content |-> lengths]
          /\ binary_data_dir.data[prefix] = [exists |-> TRUE, content |-> builder.items]
    /\ \A p \in PrefixSet :
          binary_data_dir.lengths[p].exists /\ ~(pc = "save" /\ p = prefix) =>
              /\ binary_data_dir.data[p].exists
              /\ LensOf(binary_data_dir.lengths[p].content, binary_data_dir.data[p].content)

\* the worker pool strategy has saved the lengths of two records of different length
C1_Witness ==
    /\ pc = "returned"
    /\ multiprocess
    /\ Len(lengths) >= 2
    /\ lengths[1] # lengths[2]
    /\ binary_data_dir.lengths[prefix].content = lengths

\* the multiset of the entries of a sequence
SeqToBag(s) == [x \in Range(s) |-> Cardinality({k \in DOMAIN s : s[k] = x})]

\* two completed calls on the same split, one per strategy, agree up to order
SameUpToOrder(c, d) ==
    /\ SeqToBag(c.items) = SeqToBag(d.items)
    /\ SeqToBag(c.lengths) = SeqToBag(d.lengths)
    /\ c.total_sec = d.total_sec

\* C2: on every split and every assignment of record-or-skip outcomes the two
\* strategies agree except for ordering: process has run each split with the
\* single-threaded strategy to its end, so a later worker-pool call on one of them
\* ends normally too, with the same multiset of records, the same multiset of
\* frame lengths and the same total duration.
C2_StrategiesEquivalent ==
    /\ caller = "direct" /\ multiprocess => pc # "aborted"
    /\ \A j, k \in DOMAIN calls :
          /\ calls[j].prefix = calls[k].prefix
          /\ ~calls[j].multiprocess
          /\ calls[k].multiprocess
          => SameUpToOrder(calls[j], calls[k])

\* what process_item returns for one entry of args
Extract(arg) == process_item(arg.item_name, arg.meta_data, phone_encoder, binarization_args)

\* the messages of the recoverable failures
SkipMessages ==
    {"Empty **gt** f0", "NaN CWT", "Empty phoneme", "Align not found", "Align does not match"}

\* rec is a whole record of the item of arg: its name, its mel, frame count and
\* duration, and every attribute of the item
Whole(rec, arg) ==
    /\ rec.ret = "item"
    /\ rec.item_name = arg.item_name
    /\ (ResKeys \ {"wav"}) \cup arg.meta_data.keys \subseteq rec.keys
    /\ rec.len = Len(arg.meta_data.wav_fn.f0)
    /\ rec.sec = arg.meta_data.wav_fn.sec

\* C3: in the single cpu loop (lines 170-184, the strategy process uses) a
\* recoverable failure of one item never ends the run: the loop goes on to the end
\* of the split, and once the split has completed its container holds exactly one
\* whole record for each item whose extraction succeeded and nothing for an item
\* that was skipped.
C3_SkipAndContinue ==
    /\ err \notin SkipMessages
    /\ ~multiprocess /\ pc = "save" => i = 0
    /\ \A n \in DOMAIN calls :
          ~calls[n].multiprocess =>
              LET todo == meta_data_iterator(calls[n].prefix)
                  kept == {k \in DOMAIN todo : Extract(todo[k]).ret = "item"}
                  recs == calls[n].items
              IN  /\ Len(recs) = Cardinality(kept)
                  /\ \A k \in kept : \E j \in DOMAIN recs : Whole(recs[j], todo[k])
                  /\ \A j \in DOMAIN recs : \E k \in kept : recs[j].item_name = todo[k].item_name

\* a split has completed in which an item was skipped and an item extracted after
\* it was appended
C3_Witness ==
    \E n \in DOMAIN calls :
        /\ ~calls[n].multiprocess
        /\ LET todo == meta_data_iterator(calls[n].prefix)
           IN  \E j, k \in DOMAIN todo :
                  /\ j < k
                  /\ Extract(todo[k]).ret = "None"
                  /\ \E r \in DOMAIN calls[n].items : Whole(calls[n].items[r], todo[j])

\* the waveform loads, the pitch tracker returns, and every frame it returns is 0
SilentPitch(meta) ==
    /\ "wav_fn" \in meta.keys
    /\ meta.wav_fn.fault \notin {"load", "pitch"}
    /\ \A k \in DOMAIN meta.wav_fn.f0 : meta.wav_fn.f0[k] = 0

Named(recs, name) == \E k \in DOMAIN recs : recs[k].item_name = name

\* the pitch contours of the records that carry one, in the records' order
F0sOf(recs) ==
    LET pitched == SelectSeq(recs, LAMBDA r : "f0" \in r.keys)
    IN  [k \in DOMAIN pitched |-> pitched[k].f0]

\* C4: with with_f0 set, process_item returns None for an item whose pitch contour
\* is all zeros, in the single cpu loop and in a worker alike; no record of that
\* item is in a container, the lengths list holds one entry per appended record
\* and no other, and the collected pitch values are those of the appended records
\* only.
C4_SilentSkipped ==
    binarization_args.with_f0 =>
        /\ \A e \in Range(items) :
              SilentPitch(e.meta) =>
                  /\ phone_encoder.built =>
                        Extract([item_name |-> e.name, meta_data |-> e.meta]).ret = "None"
                  /\ ~Named(builder.items, e.name)
                  /\ \A p \in PrefixSet : ~Named(binary_data_dir.data[p].content, e.name)
                  /\ \A n \in DOMAIN calls : ~Named(calls[n].items, e.name)
        /\ \A j \in DOMAIN results :
              SilentPitch(args[j].meta_data) => results[j].ret \in {"pending", "None"}
        /\ Len(lengths) = Len(builder.items)
        /\ f0s = F0sOf(builder.items)
        /\ \A k \in DOMAIN f0s : \E n \in DOMAIN f0s[k] : f0s[k][n] # 0

\* a split holding a silent item has completed with with_f0 set, and a record of
\* another item is in its container
C4_Witness ==
    /\ binarization_args.with_f0
    /\ pc = "save"
    /\ builder.items # <<>>
    /\ f0s # <<>>
    /\ \E k \in DOMAIN args : SilentPitch(args[k].meta_data)

\* no external call fails on the item's waveform
Sound(meta) == "wav_fn" \in meta.keys /\ meta.wav_fn.fault = "none"

\* the pitch and wavelet stages, where enabled, let the item through
PitchPasses(meta) ==
    binarization_args.with_f0 =>
        /\ \E k \in DOMAIN meta.wav_fn.f0 : meta.wav_fn.f0[k] # 0
        /\ binarization_args.with_f0cwt => meta.wav_fn.cwt = "ok"

\* tg_fn is None or names no file
AlignAbsent(meta) == "tg_fn" \in meta.keys /\ meta.tg_fn.kind \in {"None", "missing"}

\* tg_fn names a file get_mel2ph reads
AlignPresent(meta) == "tg_fn" \in meta.keys /\ meta.tg_fn.kind = "exists"

AlignMessages == {"Align not found", "Align does not match"}

\* C5: with with_txt and with_align set, process_item returns None for an item
\* whose alignment source is absent and for an item whose largest alignment index
\* exceeds the length of its encoded phonemes (by the alignment step itself when
\* the earlier stages let the item through); an item whose largest alignment index
\* is at most that length is not skipped by the alignment step and its record
\* carries mel2ph and dur.
C5_Alignment ==
    LET meta == a.meta_data
        phone_encoded == encode(phone_encoder, meta)
    IN  /\ pc = "item_returned"
        /\ binarization_args.with_txt
        /\ binarization_args.with_align
        /\ Sound(meta)
        => /\ AlignAbsent(meta) =>
                 /\ item.ret = "None"
                 /\ PitchPasses(meta) /\ ~encode_fails(phone_encoder, meta) =>
                        item.why = "Align not found"
           /\ AlignPresent(meta) /\ ~encode_fails(phone_encoder, meta)
                 /\ meta.tg_fn.max > Len(phone_encoded) =>
                 /\ item.ret = "None"
                 /\ PitchPasses(meta) => item.why = "Align does not match"
           /\ AlignPresent(meta) /\ ~encode_fails(phone_encoder, meta)
                 /\ meta.tg_fn.max <= Len(phone_encoded) =>
                 /\ item.why \notin AlignMessages
                 /\ item.ret = "item" => {"mel2ph", "dur"} \subseteq item.keys
                 /\ PitchPasses(meta) => item.ret = "item"

\* the boundary: the largest alignment index equals the encoded length, and the
\* item is returned with its alignment
C5_Witness ==
    /\ pc = "item_returned"
    /\ binarization_args.with_txt
    /\ binarization_args.with_align
    /\ AlignPresent(a.meta_data)
    /\ a.meta_data.tg_fn.max = Len(a.meta_data.ph)
    /\ item.ret = "item"
    /\ {"mel2ph", "dur"} \subseteq item.keys

DriverOrder == <<"valid", "test", "train">>

\* C6: process runs its steps in one order: the speaker map is built and written,
\* then the phoneme encoder is built, then valid, test and train are processed, each
\* to completion before the next starts; no split is processed before the speaker
\* map is written and the encoder is there.
C6_FixedOrder ==
    /\ binary_data_dir.spk_map.exists => pc \notin {"__init__", "idle", "dump_spk_map"}
    /\ phone_encoder.built =>
          /\ binary_data_dir.spk_map.exists
          /\ binary_data_dir.spk_map.content = spk_map
    /\ split_no > 0 \/ builder.created =>
          /\ phone_encoder.built
          /\ binary_data_dir.phone_set.exists
          /\ binary_data_dir.spk_map.exists
    /\ builder.created => split_no > 0
    /\ \A k \in DOMAIN DriverOrder :
          /\ k < split_no =>
                /\ binary_data_dir.data[DriverOrder[k]].exists
                /\ binary_data_dir.lengths[DriverOrder[k]].exists
          /\ k > split_no =>
                /\ ~binary_data_dir.data[DriverOrder[k]].exists
                /\ ~binary_data_dir.lengths[DriverOrder[k]].exists
          /\ k = split_no /\ caller = "process" =>
                (binary_data_dir.data[DriverOrder[k]].exists <=> builder.finalized)
    /\ caller = "process" =>
          /\ split_no \in DOMAIN DriverOrder
          /\ prefix = DriverOrder[split_no]
          /\ ~multiprocess
          /\ Len(calls) \in {split_no - 1, split_no}
    /\ \A k \in DOMAIN calls :
          calls[k].caller = "process" => k \in DOMAIN DriverOrder /\ calls[k].prefix = DriverOrder[k]
    /\ pc = "done" => split_no = 3 /\ Len(calls) = 3

\* process has returned and each of its three splits kept a record
C6_Witness ==
    /\ pc = "done"
    /\ Len(calls) = 3
    /\ \A k \in DOMAIN calls : calls[k].caller = "process" /\ calls[k].items # <<>>

\* the extraction of this item, under the flags of the run, ends in an exception
\* that is not a BinarizationError
SkippedBeforeAlign(meta) ==
    \/ binarization_args.with_f0 /\ Sum(meta.wav_fn.f0) = 0
    \/ binarization_args.with_f0 /\ binarization_args.with_f0cwt /\ meta.wav_fn.cwt = "nan"
    \/ binarization_args.with_txt /\ encode_fails(phone_encoder, meta)

Throws(meta) ==
    \/ meta.wav_fn.fault = "load"
    \/ binarization_args.with_f0 /\ meta.wav_fn.fault = "pitch"
    \/ /\ binarization_args.with_f0 /\ binarization_args.with_f0cwt
       /\ meta.wav_fn.fault = "cwt" /\ Sum(meta.wav_fn.f0) # 0
    \/ /\ binarization_args.with_txt /\ binarization_args.with_align
       /\ ~SkippedBeforeAlign(meta)
       /\ "tg_fn" \notin meta.keys \/ meta.tg_fn.kind = "corrupt"

ExtractionErrors ==
    {"wav2spec", "get_pitch_algorithm", "get_lf0_cwt", "get_mel2ph", "KeyError: tg_fn",
     "KeyError: wav_fn"}

\* the arguments of the items the loop in progress has consumed
Consumed ==
    IF multiprocess THEN {args[k] : k \in 1..f_id}
    ELSE {args[k] : k \in (i + 1)..Len(args)}

\* C7: an exception inside an item's extraction that is not a BinarizationError is
\* never turned into a skip: no loop goes past an item whose extraction throws, and
\* no completed split holds or has skipped one.  When it is raised the run is over:
\* the item that threw is the last one consumed, the split's container is not
\* finalized, its lengths are not written, and under process no later split has a
\* file.
C7_FatalPropagates ==
    /\ pc \in {"loop", "save", "split", "done", "returned"} /\ builder.created =>
          \A arg \in Consumed : ~Throws(arg.meta_data)
    /\ \A k \in DOMAIN calls :
          /\ \A rec \in Range(calls[k].items) : ~Throws(Lookup(items, rec.item_name))
          /\ ~calls[k].multiprocess =>
                \A arg \in Range(meta_data_iterator(calls[k].prefix)) : ~Throws(arg.meta_data)
    /\ err \in ExtractionErrors =>
          /\ pc = "aborted"
          /\ ~builder.finalized
          /\ \E arg \in Consumed :
                /\ Throws(arg.meta_data)
                /\ \A other \in Consumed \ {arg} : ~Throws(other.meta_data)
          /\ \A rec \in Range(builder.items) :
                \E arg \in Consumed : arg.item_name = rec.item_name /\ ~Throws(arg.meta_data)
          /\ caller = "process" =>
                /\ Len(calls) = split_no - 1
                /\ \A k \in split_no..Len(Prefixes) :
                      /\ ~binary_data_dir.data[Prefixes[k]].exists
                      /\ ~binary_data_dir.lengths[Prefixes[k]].exists
                      /\ ~binary_data_dir.f0s_mean_std[Prefixes[k]].exists

\* get_mel2ph threw in the second split of process, after that split had kept a
\* record and before it reached its last item
C7_Witness ==
    /\ pc = "aborted"
    /\ err = "get_mel2ph"
    /\ caller = "process"
    /\ split_no = 2
    /\ Len(calls) = 1
    /\ builder.items # <<>>
    /\ i > 0

\* the distinct speaker tags of the registry
SpeakerTags == {items[k].meta.spk_id : k \in DOMAIN items}

\* C8: the mapping build_spk_map returns has the distinct speaker tags of all items
\* as its keys, one id for each tag, the ids 0..N-1 for N tags with no id used twice,
\* and ids that grow with the tags; the registry is what the constructor loaded.
C8_SpkMapDense ==
    /\ ds_id = 1 => items = datasets[1]
    /\ pc \notin {"__init__", "idle", "aborted"} =>
          /\ {p[1] : p \in spk_map} = SpeakerTags
          /\ \A p, q \in spk_map : p[1] = q[1] => p[2] = q[2]
          /\ {p[2] : p \in spk_map} = 0..(Cardinality(SpeakerTags) - 1)
          /\ \A p, q \in spk_map : p[2] = q[2] => p[1] = q[1]
          /\ \A p, q \in spk_map : p[1] < q[1] => p[2] < q[2]
    /\ binary_data_dir.spk_map.exists => binary_data_dir.spk_map.content = spk_map

\* three items of two speakers, the larger tag met first
C8_Witness ==
    /\ pc = "dump_spk_map"
    /\ Len(items) = 3
    /\ Cardinality(spk_map) = 2
    /\ items[1].meta.spk_id > items[2].meta.spk_id

\* C9: once process has called build_spk_map, more distinct speaker tags than
\* num_spk means the run has aborted on the assertion with no speaker map written,
\* no encoder built and no split processed; at most num_spk tags means the
\* assertion has not failed.
C9_TooManySpeakers ==
    pc \notin {"__init__", "idle"} /\ err # "IndexError" =>
        /\ Cardinality(SpeakerTags) > hparams.num_spk =>
              /\ pc = "aborted"
              /\ err = "AssertionError"
              /\ spk_map = {}
              /\ ~binary_data_dir.spk_map.exists
              /\ ~binary_data_dir.phone_set.exists
              /\ ~phone_encoder.built
              /\ ~builder.created
              /\ split_no = 0
              /\ calls = <<>>
              /\ \A p \in PrefixSet :
                    ~binary_data_dir.data[p].exists /\ ~binary_data_dir.lengths[p].exists
        /\ Cardinality(SpeakerTags) <= hparams.num_spk =>
              /\ err \notin {"AssertionError", "KeyError: spk_id"}
              /\ pc = "aborted" => caller = "direct"

\* one speaker more than num_spk allows
C9_Witness ==
    /\ pc = "aborted"
    /\ err = "AssertionError"
    /\ hparams.num_spk >= 1
    /\ Cardinality(SpeakerTags) = hparams.num_spk + 1

\* C10: once a first dataset that has items is loaded, construction has failed on
\* the assertion if some item of the first dataset has an attribute outside the
\* schema or lacks one of the schema, and has not failed if every item of it has
\* exactly the schema.
C10_SchemaAsserted ==
    ds_id >= 1 /\ datasets[1] # <<>> =>
        IF \A k \in DOMAIN datasets[1] : datasets[1][k].meta.keys = BASE_ITEM_ATTRIBUTES
        THEN err \notin {"AssertionError", "IndexError"}
        ELSE pc = "aborted" /\ err = "AssertionError"

\* list holds the distinct symbols of the callback's output, smallest first
SortedDeduplicated(list) ==
    /\ Range(list) = Range(load_ph_set)
    /\ \A j, k \in DOMAIN list : j < k => list[j] < list[k]

\* the two encoders do the same with the phoneme sequence of the item at hand
SameEncoding(e, f) ==
    /\ encode_fails(e, a.meta_data) <=> encode_fails(f, a.meta_data)
    /\ ~encode_fails(e, a.meta_data) => encode(e, a.meta_data) = encode(f, a.meta_data)

\* C11: a call of _phone_encoder with reset_phone_dict set, or with no phone_set.json,
\* calls load_ph_set and writes the sorted, deduplicated symbols to the file; a next
\* call with reset_phone_dict unset finds that file, neither calls load_ph_set nor
\* writes the file, and returns an encoder with the same vocabulary that encodes the
\* same phoneme sequence to the same ids (or fails on it alike).
C11_VocabularyRoundTrip ==
    \A j \in DOMAIN provisions :
        LET first == provisions[j]
        IN  first.reset \/ ~first.found.exists =>
                /\ first.called
                /\ first.wrote
                /\ first.file.exists
                /\ SortedDeduplicated(json_load(first.file.content))
                /\ first.encoder.vocab_list = json_load(first.file.content)
                /\ j + 1 \in DOMAIN provisions /\ ~provisions[j + 1].reset =>
                      LET again == provisions[j + 1]
                      IN  /\ again.found = first.file
                          /\ ~again.called
                          /\ ~again.wrote
                          /\ again.file = first.file
                          /\ again.encoder.vocab_list = first.encoder.vocab_list
                          /\ again.encoder.vocab = first.encoder.vocab
                          /\ SameEncoding(first.encoder, again.encoder)

\* a reset over a stale vocabulary, then a run without reset, and a phoneme
\* sequence of two symbols that both encoders encode
C11_Witness ==
    /\ Len(provisions) = 2
    /\ provisions[1].reset
    /\ provisions[1].found.exists
    /\ provisions[1].found # provisions[1].file
    /\ ~provisions[2].reset
    /\ pc = "split"
    /\ Len(a.meta_data.ph) = 2
    /\ ~encode_fails(phone_encoder, a.meta_data)

\* a step changes the container or one of the accumulators
Aggregates == builder' # builder \/ lengths' # lengths \/ total_sec' # total_sec \/ f0s' # f0s

\* what the pool holds is what process_item returns for the job of that slot, as
\* process_item returned it: no embedding set, the waveform still there
ResultsUntouched ==
    multiprocess =>
        \A j \in DOMAIN results :
            results[j].ret # "pending" =>
                /\ results[j] = Extract(args[j])
                /\ results[j].spk_embed = "unset"
                /\ results[j].ret = "item" => "wav" \in results[j].keys

\* a step of the pool fills one pending slot and touches nothing else
WorkerOnlyComputes ==
    results' # results =>
        /\ UNCHANGED <<builder, lengths, total_sec, f0s, f_id, binary_data_dir>>
        /\ \E j \in DOMAIN results :
              /\ results[j].ret = "pending"
              /\ results' = [results EXCEPT ![j] = Extract(args[j])]

\* a step that aggregates is the orchestrator's, taken on the next result in
\* dispatch order once the pool has delivered it, and it adds one record
AggregatesAfterReceipt ==
    Aggregates /\ pc' = "loop" =>
        /\ results' = results
        /\ f_id' = f_id + 1
        /\ results[f_id'].ret = "item"
        /\ Len(builder'.items) = Len(builder.items) + 1
        /\ builder'.items[Len(builder'.items)].item_name = results[f_id'].item_name
        /\ SubSeq(builder'.items, 1, Len(builder.items)) = builder.items
        /\ lengths' = Append(lengths, results[f_id'].len)
        /\ total_sec' = total_sec + results[f_id'].sec

\* C12: in the worker pool strategy a worker only computes the result of its own
\* job; the container, the lengths, the duration and the pitch values change only
\* in a step of the orchestrator on a result the pool has delivered, one record at
\* a time, and a slot's result never depends on what another job returned.
C12_SingleWriter ==
    /\ []ResultsUntouched
    /\ [][multiprocess /\ pc = "loop" => WorkerOnlyComputes /\ AggregatesAfterReceipt]_vars

\* the pool has returned a skip and, after it in dispatch order, a record; the
\* orchestrator has consumed both and has the record
C12_Witness ==
    /\ multiprocess
    /\ pc = "loop"
    /\ f_id >= 2
    /\ results[f_id - 1].ret = "None"
    /\ results[f_id].ret = "item"
    /\ Named(builder.items, results[f_id].item_name)
    /\ \E j \in DOMAIN results : results[j].ret = "pending"

\* C13: under either strategy the container of a split is finalized only once
\* every item the split's name set yields has been consumed by the loop and is
\* either in the container or was skipped; nothing is appended after finalize, and
\* the lengths and the pitch statistics of the split are written only after it.
C13_FinalizedAfterAll ==
    /\ builder.finalized =>
          /\ pc \in {"save", "split", "done", "returned"}
          /\ Range(args) \subseteq Consumed
          /\ \A arg \in Range(args) :
                Named(builder.items, arg.item_name) \/ Extract(arg).ret = "None"
          /\ binary_data_dir.data[prefix] = [exists |-> TRUE, content |-> builder.items]
    /\ pc = "save" \/ JustReturned => builder.finalized
    /\ JustReturned => binary_data_dir.lengths[prefix] = [exists |-> TRUE, content |-> lengths]
    /\ caller = "process" /\ ~builder.finalized /\ prefix # "" =>
          /\ ~binary_data_dir.lengths[prefix].exists
          /\ ~binary_data_dir.f0s_mean_std[prefix].exists

\* some record carries a pitch contour
Pitched(recs) == \E k \in DOMAIN recs : "f0" \in recs[k].keys

\* the non-zero pitch values of the records, record after record
RECURSIVE PitchValues(_)
PitchValues(recs) ==
    IF recs = <<>> THEN <<>>
    ELSE (IF "f0" \in Head(recs).keys
          THEN SelectSeq(Head(recs).f0, LAMBDA x : x # 0)
          ELSE <<>>) \o PitchValues(Tail(recs))

\* the pitch values collected are those of the appended records and of no other
\* item, and with with_f0 unset there is no statistics file
PitchCollected ==
    /\ f0s = F0sOf(builder.items)
    /\ ~binarization_args.with_f0 =>
          /\ f0s = <<>>
          /\ \A p \in PrefixSet : ~binary_data_dir.f0s_mean_std[p].exists

\* the step that ends a call writes the statistics of the split exactly when an
\* appended record carries a contour, over the non-zero values of those records
StatisticsWritten ==
    pc = "save" /\ pc' # "save" =>
        /\ IF Pitched(builder.items)
           THEN binary_data_dir'.f0s_mean_std[prefix] =
                    [exists |-> TRUE, content |-> PitchValues(builder.items)]
           ELSE binary_data_dir'.f0s_mean_std[prefix] = binary_data_dir.f0s_mean_std[prefix]
        /\ \A p \in PrefixSet \ {prefix} :
              binary_data_dir'.f0s_mean_std[p] = binary_data_dir.f0s_mean_std[p]

\* C14: a call of process_data_split writes the pitch statistics file of its split
\* if and only if a record it appended carries a pitch contour, and writes it over
\* exactly the non-zero pitch values of the appended records; skipped items add
\* nothing, and with with_f0 unset no statistics file is written.
C14_PitchStatistics == []PitchCollected /\ [][StatisticsWritten]_vars

\* a call has written statistics that left out an unvoiced frame, on a split that
\* also held a skipped silent item
C14_Witness ==
    /\ JustReturned
    /\ binary_data_dir.f0s_mean_std[prefix].exists
    /\ binary_data_dir.f0s_mean_std[prefix].content = PitchValues(builder.items)
    /\ binary_data_dir.f0s_mean_std[prefix].content # concatenate(f0s)
    /\ \E k \in DOMAIN args : SilentPitch(args[k].meta_data)

\* every record a container has received, in this call or an earlier one
Appended ==
    Range(builder.items)
        \cup UNION {Range(binary_data_dir.data[p].content) : p \in PrefixSet}
        \cup UNION {Range(calls[n].items) : n \in DOMAIN calls}

\* C15: for every record that was not skipped, under either strategy, the embedding
\* is computed while the record still has its waveform, the waveform is dropped
\* after that when with_wav is unset, and the record is appended and counted after
\* both: an appended record has a waveform exactly when with_wav is set, its
\* spk_embed is the embedding when with_spk_embed is set and None otherwise, and the
\* embedding never fails for want of the waveform.
C15_EmbedDropAppend ==
    /\ err # "KeyError: wav"
    /\ \A rec \in Appended :
          /\ "wav" \in rec.keys <=> binarization_args.with_wav
          /\ "spk_embed" \in rec.keys
          /\ rec.spk_embed = IF binarization_args.with_spk_embed THEN "vec" ELSE "None"
    /\ Len(lengths) = Len(builder.items)
    /\ total_sec = Sum([k \in DOMAIN builder.items |-> builder.items[k].sec])

\* the worker pool strategy has appended a record with an embedding and no waveform
C15_Witness ==
    /\ multiprocess
    /\ binarization_args.with_spk_embed
    /\ ~binarization_args.with_wav
    /\ builder.items # <<>>
    /\ builder.items[1].spk_embed = "vec"
    /\ "wav" \notin builder.items[1].keys

Reversed(s) == [k \in DOMAIN s |-> s[Len(s) + 1 - k]]

NamesOf(recs) == [k \in DOMAIN recs |-> recs[k].item_name]

\* the names of the first n entries of todo, taken last to first, that are not skipped
KeptInReverse(todo, n) ==
    NamesOf(SelectSeq(SubSeq(Reversed(todo), 1, n), LAMBDA arg : Extract(arg).ret = "item"))

\* C16: the single cpu loop takes the items of the split last to first; the
\* container holds the records of the items that were not skipped in that order;
\* and two single cpu calls on the same split, with the same registry and
\* configuration, end with the same records and the same lengths.
C16_SingleDeterministic ==
    /\ ~multiprocess /\ builder.created /\ err \notin {"KeyError: wav"} =>
          /\ Consumed = {args[k] : k \in (i + 1)..Len(args)}
          /\ NamesOf(builder.items) = KeptInReverse(args, Len(args) - i)
    /\ \A n \in DOMAIN calls :
          ~calls[n].multiprocess =>
              LET todo == meta_data_iterator(calls[n].prefix)
              IN  /\ NamesOf(calls[n].items) = KeptInReverse(todo, Len(todo))
                  /\ LensOf(calls[n].lengths, calls[n].items)
    /\ \A j, k \in DOMAIN calls :
          /\ calls[j].prefix = calls[k].prefix
          /\ ~calls[j].multiprocess
          /\ ~calls[k].multiprocess
          => /\ calls[j].items = calls[k].items
             /\ calls[j].lengths = calls[k].lengths

\* a split of three items, the middle one skipped, was processed twice by the
\* single cpu loop
C16_Witness ==
    \E j, k \in DOMAIN calls :
        /\ j < k
        /\ calls[j].prefix = calls[k].prefix
        /\ ~calls[j].multiprocess
        /\ ~calls[k].multiprocess
        /\ Len(calls[k].items) = 2
        /\ Len(meta_data_iterator(calls[k].prefix)) = 3
        /\ Extract(meta_data_iterator(calls[k].prefix)[2]).ret = "None"

\* C17: once the metadata is loaded the registry is what was loaded: no call of
\* process_item or of process_data_split, whether the item is kept or skipped,
\* changes the names, an item or an item's attributes; the record that gets the
\* embedding and loses the waveform is another object.
C17_RegistryReadOnly ==
    /\ ds_id >= 1 => items = datasets[1]
    /\ pc \notin {"__init__", "aborted"} =>
          Range(item_names) = {items[k].name : k \in DOMAIN items}

\* a split with a skipped item has completed and its container holds a record
\* whose fields are no longer those of the item
C17_Witness ==
    /\ JustReturned
    /\ \E k \in DOMAIN args : Extract(args[k]).ret = "None"
    /\ \E rec \in Range(builder.items) :
          /\ "wav" \notin rec.keys
          /\ rec.keys # ResKeys \cup Lookup(items, rec.item_name).keys
    /\ items = datasets[1]

PitchFields == {"f0", "pitch"}

CwtFields == {"cwt_spec", "cwt_scales", "f0_mean", "f0_std"}

AlignFields == {"mel2ph", "dur"}

\* a stage left a field in the record or ended the extraction only if its flags are set
StagesGated ==
    /\ item.keys \cap PitchFields # {} \/ item.why \in {"Empty **gt** f0", "get_pitch_algorithm"}
          => binarization_args.with_f0
    /\ item.keys \cap CwtFields # {} \/ item.why \in {"NaN CWT", "get_lf0_cwt"}
          => binarization_args.with_f0 /\ binarization_args.with_f0cwt
    /\ "phone" \in item.keys \/ item.why = "Empty phoneme" => binarization_args.with_txt
    /\ item.keys \cap AlignFields # {}
          \/ item.why \in AlignMessages \cup {"get_mel2ph", "KeyError: tg_fn"}
          => binarization_args.with_txt /\ binarization_args.with_align

\* a stage whose flags are set and that is reached leaves its fields in the record
StagesRun ==
    item.ret = "item" =>
        /\ binarization_args.with_f0 => PitchFields \subseteq item.keys
        /\ binarization_args.with_f0 /\ binarization_args.with_f0cwt => CwtFields \subseteq item.keys
        /\ binarization_args.with_txt => "phone" \in item.keys
        /\ binarization_args.with_txt /\ binarization_args.with_align =>
              AlignFields \subseteq item.keys

\* on an item no external call fails on, the first stage in the order pitch,
\* wavelet, encoding, alignment that fails is the one that ends the extraction
FirstFailureEnds ==
    LET meta == a.meta_data
        silent == Sum(meta.wav_fn.f0) = 0
    IN  Sound(meta) =>
            /\ binarization_args.with_f0 /\ silent =>
                  item.ret = "None" /\ item.why = "Empty **gt** f0"
            /\ binarization_args.with_f0 /\ binarization_args.with_f0cwt /\ ~silent
                  /\ meta.wav_fn.cwt = "nan" =>
                  item.ret = "None" /\ item.why = "NaN CWT"
            /\ binarization_args.with_txt /\ PitchPasses(meta)
                  /\ encode_fails(phone_encoder, meta) =>
                  item.ret = "None" /\ item.why = "Empty phoneme"
            /\ binarization_args.with_txt /\ binarization_args.with_align /\ PitchPasses(meta)
                  /\ ~encode_fails(phone_encoder, meta) /\ AlignAbsent(meta) =>
                  item.ret = "None" /\ item.why = "Align not found"

\* C18: the stages of process_item are gated by their flags: pitch by with_f0, the
\* wavelet transform by with_f0 and with_f0cwt, encoding by with_txt, alignment by
\* with_txt and with_align; a stage that is off adds no field and ends no
\* extraction, so with with_f0 and with_txt unset nothing is skipped; the stages run
\* in the order pitch, wavelet, encoding, alignment and the first recoverable
\* failure ends the extraction.
C18_StagesGated ==
    pc = "item_returned" =>
        /\ StagesGated
        /\ StagesRun
        /\ FirstFailureEnds
        /\ ~binarization_args.with_f0 /\ ~binarization_args.with_txt =>
              /\ item.ret # "None"
              /\ Sound(a.meta_data) =>
                    item.ret = "item" /\ item.keys = ResKeys \cup a.meta_data.keys

\* with_f0 and with_txt unset, with_f0cwt and with_align set: an item with a silent
\* contour, a NaN transform and no alignment file is kept as it is
C18_Witness ==
    /\ pc = "item_returned"
    /\ ~binarization_args.with_f0
    /\ binarization_args.with_f0cwt
    /\ ~binarization_args.with_txt
    /\ binarization_args.with_align
    /\ Sum(a.meta_data.wav_fn.f0) = 0
    /\ a.meta_data.wav_fn.cwt = "nan"
    /\ AlignAbsent(a.meta_data)
    /\ item.ret = "item"
    /\ item.keys = ResKeys \cup a.meta_data.keys

====
